---- MODULE Spec2Model ----
(***************************************************************************)
(* The pandemic daemon (pandemic-daemon/src): the plugin registry, the     *)
(* event bus with suffix-wildcard matching, the connection table with one  *)
(* outbound event channel per connection, the request dispatcher and the   *)
(* per-connection task.  One action of the model is one region of the code *)
(* that runs under the daemon's mutex (a dispatched request together with  *)
(* the write of its response, add_connection, remove_connection) or one    *)
(* turn of the task's select loop.                                         *)
(*                                                                         *)
(* The satellites have a specification each: the client library            *)
(* (ClientSpec), the daemon's mutex (LockSpec), the REST gateway's         *)
(* authentication (AuthSpec) and WebSocket stream (WsSpec), the UDP bridge *)
(* (UdpSpec) and the health loop of pandemic-proxy (HealthSpec).           *)
(*                                                                         *)
(* Strings that are matched (topics and patterns) are sequences of         *)
(* one-character strings.  "p" abbreviates the prefix "plugin.", so        *)
(* <<"p","r">> is plugin.registered, <<"p","d">> is plugin.deregistered    *)
(* and <<"p","*">> is the pattern plugin.* .                               *)
(***************************************************************************)
EXTENDS Integers, Sequences, FiniteSets, TLC

\* ------------------------------------------------------------ bounds
\* Connections the accept loop hands out before the model stops accepting.
MaxConn == 2
\* Readings of the wall clock (one per Register, Deregister, Publish).
MaxClock == 3
\* Longest pattern and topic the matcher is applied to in MatchSpec.
MaxLen == 3
\* Requests the client sends and events the daemon writes in ClientSpec.
MaxRequests == 3
MaxEvents == 2
\* Connection tasks the accept loop spawns in LockSpec.
MaxTasks == 3
\* Health checks the proxy runs in HealthSpec.
MaxChecks == 3

\* ------------------------------------------------------------ values
None == "None"
Null == "null"
\* Option<SystemTime>: Some(t) and None.
Some(t) == <<t>>
NoTime == << >>
Names == {"p", "q"}
Versions == {"1"}
\* The data of a published event is a JSON value: here an object.
Datas == {[value |-> "d"]}
Chars == {"a", "b", "*"}

TopicRegistered == <<"p", "r">>
TopicDeregistered == <<"p", "d">>
\* Topics a client publishes under, and the topic lists it subscribes with
\* and unsubscribes.
PublishTopics == {<<"m">>}
SubscribeLists == {<< <<"m">> >>, << <<"p", "*">>, <<"m">> >>}
UnsubscribeLists == {<< <<"m">> >>, << <<"p", "*">>, <<"x">> >>}

VARIABLES
    plugins,            \* Daemon.plugins: name -> PluginInfo
    subscribers,        \* EventBus.subscribers: name -> sequence of patterns
    connections,        \* Daemon.connections: id -> ConnectionContext
    channel,            \* the queue of each context's unbounded channel
    task,               \* where each spawned handle_connection task is
    connection_counter, \* the accept loop's counter
    clock,              \* the wall clock, as the number of readings so far
    delivered,          \* Event lines written to each connection's socket
    answered,           \* per peer: the names its Subscribe was answered
                        \* Success under
    m_pattern,          \* MatchSpec: the pattern handed to the matcher
    m_topic,            \* MatchSpec: the topic handed to the matcher
    m_result,           \* MatchSpec: <<the matcher's answer>>, << >> before
    requests,           \* ClientSpec: request lines written by the client
                        \* that the daemon has not read yet
    stream,             \* ClientSpec: lines written by the daemon that the
                        \* client has not read yet
    client,             \* ClientSpec: where the PersistentClient is
    sent,               \* ClientSpec: requests written so far
    emitted,            \* ClientSpec: events written so far
    results,            \* ClientSpec: what each send_request returned
    received,           \* ClientSpec: the events read_event returned
    line,               \* ClientSpec: what the daemon's pending read_line
                        \* has taken off the socket, no newline yet
    written,            \* ClientSpec: every line the daemon has written
    guard,              \* LockSpec: <<the task holding the mutex>>, << >>
                        \* when it is free
    pc,                 \* LockSpec: where the accept loop (task 0) and each
                        \* connection task is
    identities,         \* AuthSpec: AuthConfig.identities
    roles,              \* AuthSpec: AuthConfig.roles
    http_request,       \* AuthSpec: the HTTP request being served: its key,
                        \* the scopes put in its extensions, the scope its
                        \* handler requires and the status answered
    client_guard,       \* UdpSpec: <<the task holding the Mutex of the
                        \* shared PersistentClient>>, << >> when it is free
    monitor,            \* UdpSpec: where the deregister monitor task is
    proxy,              \* UdpSpec: where run_udp_server is
    datagrams,          \* UdpSpec: UDP requests received so far
    replies,            \* UdpSpec: what was sent back for each of them
    seen,               \* UdpSpec: events the monitor has handled
    websockets,         \* WsSpec: per WebSocket handler, where it is, its
                        \* daemon connection, its topics and the messages
                        \* it has sent to its client
    last_health_status, \* HealthSpec: the outcome recorded by the loop
    child,              \* HealthSpec: the wrapped process
    health_log          \* HealthSpec: per health check, its outcome and
                        \* the Publish request sent for it, if any

dvars == <<plugins, subscribers, connections, channel, task,
           connection_counter, clock, delivered, answered>>
mvars == <<m_pattern, m_topic, m_result>>
cvars == <<requests, stream, client, sent, emitted, results, received,
           line, written>>
lvars == <<guard, pc>>
avars == <<identities, roles, http_request>>
uvars == <<client_guard, monitor, proxy, datagrams, replies, seen>>
wvars == <<websockets>>
hvars == <<last_health_status, child, health_log>>
xvars == <<avars, uvars, wvars, hvars>>
vars == <<plugins, subscribers, connections, channel, task,
          connection_counter, clock, delivered, answered,
          m_pattern, m_topic, m_result,
          requests, stream, client, sent, emitted, results, received,
          line, written, guard, pc,
          identities, roles, http_request,
          client_guard, monitor, proxy, datagrams, replies, seen,
          websockets, last_health_status, child, health_log>>

\* ------------------------------------------------------------ helpers
\* HashMap::insert and HashMap::remove.
insert(map, key, value) ==
    [k \in DOMAIN map \cup {key} |-> IF k = key THEN value ELSE map[k]]

remove(map, key) ==
    [k \in DOMAIN map \ {key} |-> map[k]]

Success(data) == [status |-> "Success", data |-> data]
Error(message) == [status |-> "Error", message |-> message]
NotFound(message) == [status |-> "NotFound", message |-> message]

\* ------------------------------------------------------------ matcher
ends_with(s, ch) == Len(s) > 0 /\ s[Len(s)] = ch

starts_with(s, prefix) ==
    Len(prefix) <= Len(s) /\ SubSeq(s, 1, Len(prefix)) = prefix

\* str::trim_end_matches: strips every trailing occurrence of ch.
RECURSIVE trim_end_matches(_, _)
trim_end_matches(s, ch) ==
    IF ends_with(s, ch) THEN trim_end_matches(SubSeq(s, 1, Len(s) - 1), ch)
    ELSE s

\* The closure of EventBus::publish that decides one pattern.
topic_matches(topic, event_topic) ==
    IF ends_with(topic, "*")
    THEN starts_with(event_topic, trim_end_matches(topic, "*"))
    ELSE event_topic = topic

\* topics.iter().any(...)
matches(topics, event) ==
    \E i \in 1..Len(topics) : topic_matches(topics[i], event.topic)

\* ------------------------------------------------------------ event bus
\* The orders in which connections.values() may iterate over a table.
Orders(conns) ==
    {o \in [1..Cardinality(DOMAIN conns) -> DOMAIN conns] :
        \A i, j \in DOMAIN o : o[i] = o[j] => i = j}

\* The receiver end of c's channel lives as long as c's task has not
\* returned.
rx_alive(c) == task[c] \in {"running", "closing"}

\* A send that would put the event at the head of the queue.
send_front(queue, event) == <<event>> \o queue

\* UnboundedSender::send on the queue of one channel.
send(queue, event) == Append(queue, event)

\* The inner loop of publish: the first context, in iteration order, whose
\* plugin_name is the subscriber's name (0 when there is none).
first_bound(name, conns, order) ==
    LET hits == {i \in DOMAIN order : conns[order[i]].plugin_name = name}
    IN IF hits = {} THEN 0
       ELSE order[CHOOSE i \in hits : \A j \in hits : i <= j]

\* A publish that would skip the pattern test and fan out to every
\* subscriber.
publish_unmatched(event, conns, order, chans) ==
    LET receivers == {first_bound(n, conns, order) : n \in DOMAIN subscribers}
    IN [c \in DOMAIN chans |->
           IF c \in receivers /\ rx_alive(c)
           THEN send(chans[c], event) ELSE chans[c]]

\* A publish that would give up, delivering to nobody, when the channel of a
\* matching subscriber is closed.
publish_abort_on_closed(event, conns, order, chans) ==
    LET matching == {n \in DOMAIN subscribers : matches(subscribers[n], event)}
        receivers == {first_bound(n, conns, order) : n \in matching}
    IN IF \E c \in receivers \cap DOMAIN chans : ~rx_alive(c) THEN chans
       ELSE [c \in DOMAIN chans |->
                IF c \in receivers THEN send(chans[c], event) ELSE chans[c]]

\* A publish whose inner loop would not stop at the first bound connection
\* and would send to every connection bound to a matching subscriber.
publish_every_bound(event, conns, order, chans) ==
    LET matching == {n \in DOMAIN subscribers : matches(subscribers[n], event)}
    IN [c \in DOMAIN chans |->
           IF c \in DOMAIN conns /\ conns[c].plugin_name \in matching
                 /\ rx_alive(c)
           THEN send(chans[c], event) ELSE chans[c]]

\* EventBus::publish: the channels after the fan-out of event.
publish(event, conns, order, chans) ==
    LET matching == {n \in DOMAIN subscribers : matches(subscribers[n], event)}
        receivers == {first_bound(n, conns, order) : n \in matching}
    IN [c \in DOMAIN chans |->
           IF c \in receivers /\ rx_alive(c)
           THEN send(chans[c], event) ELSE chans[c]]

\* A subscribe that would add the topics to the list already there.
subscribe_union(plugin_name, topics) ==
    insert(subscribers, plugin_name,
           IF plugin_name \in DOMAIN subscribers
           THEN subscribers[plugin_name] \o topics ELSE topics)

\* EventBus::subscribe and EventBus::unsubscribe.
subscribe(plugin_name, topics) == insert(subscribers, plugin_name, topics)

retain(current, topics) ==
    SelectSeq(current, LAMBDA t : \A i \in 1..Len(topics) : topics[i] # t)

\* An unsubscribe that would drop the entry once its list is empty.
unsubscribe_drop_empty(plugin_name, topics) ==
    IF plugin_name \in DOMAIN subscribers
    THEN IF retain(subscribers[plugin_name], topics) = << >>
         THEN remove(subscribers, plugin_name)
         ELSE [subscribers EXCEPT ![plugin_name] = retain(@, topics)]
    ELSE subscribers

unsubscribe(plugin_name, topics) ==
    IF plugin_name \in DOMAIN subscribers
    THEN [subscribers EXCEPT ![plugin_name] = retain(@, topics)]
    ELSE subscribers

\* A remove_plugin that would leave the subscription entry in place.
remove_plugin_kept(plugin_name) == subscribers

\* EventBus::remove_plugin
remove_plugin(plugin_name) == remove(subscribers, plugin_name)

\* ------------------------------------------------------------ initial state
DaemonInit ==
    /\ plugins = << >>
    /\ subscribers = << >>
    /\ connections = << >>
    /\ channel = << >>
    /\ task = << >>
    /\ connection_counter = 0
    /\ clock = 0
    /\ delivered = << >>
    /\ answered = << >>

\* DaemonClient::connect: a PersistentClient on a fresh stream.
ClientInit ==
    /\ requests = << >>
    /\ stream = << >>
    /\ client = "idle"
    /\ sent = 0
    /\ emitted = 0
    /\ results = << >>
    /\ received = << >>
    /\ line = << >>
    /\ written = << >>

\* The accept loop is task 0, the connection tasks are numbered from 1.
Tasks == 0..MaxTasks

\* Arc::new(Mutex::new(daemon)): the mutex is free and no task is spawned.
LockInit ==
    /\ guard = << >>
    /\ pc = [t \in Tasks |-> IF t = 0 THEN "accept" ELSE "unspawned"]

\* Option<Vec<String>>: None; Some(scopes) is <<scopes>>.
NoScopes == << >>

\* No HTTP request has come in yet.
NoRequest ==
    [phase |-> "idle", api_key |-> "", extensions |-> NoScopes,
     required |-> "", status |-> 0]

\* The configuration loaded by test_auth_config_load.
TestIdentities ==
    [admin |-> [api_key |-> "admin-key", roles |-> <<"admin">>],
     reader |-> [api_key |-> "reader-key", roles |-> <<"reader">>]]

TestRoles ==
    [admin |-> [scopes |-> <<"*">>],
     reader |-> [scopes |-> <<"plugins:read", "health:read">>]]

\* The REST gateway after AuthConfig::load of the test's file.
AuthStart ==
    /\ identities = TestIdentities
    /\ roles = TestRoles
    /\ http_request = NoRequest

\* pandemic-udp after create_persistent_client: the client is registered
\* and subscribed, the monitor task is spawned and the server listens.
UdpInit ==
    /\ client_guard = << >>
    /\ monitor = "lock"
    /\ proxy = "select"
    /\ datagrams = 0
    /\ replies = << >>
    /\ seen = 0

\* No WebSocket has been upgraded yet.
WsInit == websockets = << >>

\* Option<bool>: None; Some(b) is <<b>>.
NoStatus == << >>

\* pandemic-proxy before its health check loop: the child is started and
\* last_health_status is None.
HealthInit ==
    /\ last_health_status = NoStatus
    /\ child = "running"
    /\ health_log = << >>

XInit == AuthStart /\ UdpInit /\ WsInit /\ HealthInit

Init ==
    /\ DaemonInit
    /\ ClientInit
    /\ LockInit
    /\ XInit
    /\ m_pattern = << >>
    /\ m_topic = << >>
    /\ m_result = << >>

\* ------------------------------------------------------------ accept loop
\* An accept loop that would number a connection by the size of the table.
Accept_reuse ==
    /\ connection_counter < MaxConn
    /\ LET id == Cardinality(DOMAIN connections) + 1
       IN /\ connection_counter' = connection_counter + 1
          /\ connections' = insert(connections, id, [plugin_name |-> None])
          /\ channel' = insert(channel, id, << >>)
          /\ task' = insert(task, id, "running")
          /\ delivered' = insert(delivered, id, << >>)
          /\ answered' = insert(answered, id, {})
    /\ UNCHANGED <<plugins, subscribers, clock, mvars, cvars, lvars, xvars>>

Accept ==
    /\ connection_counter < MaxConn
    /\ LET id == connection_counter + 1
       IN /\ connection_counter' = id
          /\ connections' = insert(connections, id, [plugin_name |-> None])
          /\ channel' = insert(channel, id, << >>)
          /\ task' = insert(task, id, "running")
          /\ delivered' = insert(delivered, id, << >>)
          /\ answered' = insert(answered, id, {})
    /\ UNCHANGED <<plugins, subscribers, clock, mvars, cvars, lvars, xvars>>

\* ------------------------------------------------------------ dispatcher
\* Register binds the calling connection to the plugin's name.
bind(conns, c, name) ==
    IF c \in DOMAIN conns THEN [conns EXCEPT ![c].plugin_name = name]
    ELSE conns

\* handle_connection after the dispatch: the response is written to the
\* socket; a failed write makes the task return at once (the ? operator),
\* which drops the receiver of its channel and skips the cleanup.  resp is
\* the line written (a function of the request and of the state it was
\* dispatched in; the model keeps no copy of the socket's stream), note the
\* names a Subscribe acknowledged with Success was made under.
WriteResponse(c, resp, ok, chans, note) ==
    /\ task' = IF ok THEN task ELSE [task EXCEPT ![c] = "failed"]
    /\ channel' = IF ok THEN chans ELSE [chans EXCEPT ![c] = << >>]
    /\ answered' = IF ok THEN [answered EXCEPT ![c] = @ \cup note]
                   ELSE answered

\* The plugin.registered and plugin.deregistered events.
registered_event(plugin, at) ==
    [topic |-> TopicRegistered, source |-> "pandemic",
     data |-> plugin, timestamp |-> Some(at)]

deregistered_event(name, at) ==
    [topic |-> TopicDeregistered, source |-> "pandemic",
     data |-> [name |-> name], timestamp |-> Some(at)]

\* A Register that would keep the record of a name already registered.
Register_first_wins(c, name, version, order, ok) ==
    /\ task[c] = "running"
    /\ clock < MaxClock
    /\ LET at == clock + 1
           plugin == [name |-> name, version |-> version,
                      registered_at |-> Some(at)]
           conns == bind(connections, c, name)
       IN /\ clock' = at
          /\ connections' = conns
          /\ plugins' = IF name \in DOMAIN plugins THEN plugins
                        ELSE insert(plugins, name, plugin)
          /\ WriteResponse(c, Success(Null), ok,
                 publish(registered_event(plugin, at), conns, order, channel),
                 {})
    /\ UNCHANGED <<subscribers, connection_counter, delivered, mvars, cvars, lvars, xvars>>

\* Request::Register
Register(c, name, version, order, ok) ==
    /\ task[c] = "running"
    /\ clock < MaxClock
    /\ LET at == clock + 1
           plugin == [name |-> name, version |-> version,
                      registered_at |-> Some(at)]
           conns == bind(connections, c, name)
       IN /\ clock' = at
          /\ connections' = conns
          /\ plugins' = insert(plugins, name, plugin)
          /\ WriteResponse(c, Success(Null), ok,
                 publish(registered_event(plugin, at), conns, order, channel),
                 {})
    /\ UNCHANGED <<subscribers, connection_counter, delivered, mvars, cvars, lvars, xvars>>

\* A Deregister that would end the tasks of the connections bound to the
\* name.
Deregister_closes(c, name, order, ok) ==
    /\ task[c] = "running"
    /\ clock < MaxClock
    /\ name \in DOMAIN plugins
    /\ clock' = clock + 1
    /\ plugins' = remove(plugins, name)
    /\ subscribers' = remove_plugin(name)
    /\ channel' = publish(deregistered_event(name, clock + 1), connections,
                          order, channel)
    /\ task' = [d \in DOMAIN task |->
                   IF d \in DOMAIN connections
                         /\ connections[d].plugin_name = name
                         /\ task[d] = "running"
                   THEN "closing" ELSE task[d]]
    /\ UNCHANGED <<connections, connection_counter, delivered, answered,
                   mvars, cvars, lvars, xvars>>

\* Request::Deregister, the name being registered.
Deregister(c, name, order, ok) ==
    /\ task[c] = "running"
    /\ clock < MaxClock
    /\ name \in DOMAIN plugins
    /\ clock' = clock + 1
    /\ plugins' = remove(plugins, name)
    /\ subscribers' = remove_plugin(name)
    /\ WriteResponse(c, Success(Null), ok,
           publish(deregistered_event(name, clock + 1), connections, order,
                   channel), {})
    /\ UNCHANGED <<connections, connection_counter, delivered, mvars, cvars, lvars, xvars>>

\* A Deregister of an absent name that would announce the removal all the
\* same.
DeregisterNotFound_publishes(c, name, ok) ==
    /\ task[c] = "running"
    /\ clock < MaxClock
    /\ name \notin DOMAIN plugins
    /\ clock' = clock + 1
    /\ \E order \in Orders(connections) :
          WriteResponse(c, NotFound(name), ok,
              publish(deregistered_event(name, clock + 1), connections,
                      order, channel), {})
    /\ UNCHANGED <<plugins, subscribers, connections, connection_counter,
                   delivered, mvars, cvars, lvars, xvars>>

\* Request::Deregister, the name being absent.
DeregisterNotFound(c, name, ok) ==
    /\ task[c] = "running"
    /\ name \notin DOMAIN plugins
    /\ WriteResponse(c, NotFound(name), ok, channel, {})
    /\ UNCHANGED <<plugins, subscribers, connections, connection_counter,
                   clock, delivered, mvars, cvars, lvars, xvars>>

\* Request::ListPlugins (the order of the listing is the map's: a set)
list_plugins == Success({plugins[n] : n \in DOMAIN plugins})

ListPlugins(c, ok) ==
    /\ task[c] = "running"
    /\ WriteResponse(c, list_plugins, ok, channel, {})
    /\ UNCHANGED <<plugins, subscribers, connections, connection_counter,
                   clock, delivered, mvars, cvars, lvars, xvars>>

\* A GetPlugin that would take the record out of the registry.
GetPlugin_takes(c, name, ok) ==
    /\ task[c] = "running"
    /\ plugins' = IF name \in DOMAIN plugins THEN remove(plugins, name)
                  ELSE plugins
    /\ WriteResponse(c, Success(Null), ok, channel, {})
    /\ UNCHANGED <<subscribers, connections, connection_counter,
                   clock, delivered, mvars, cvars, lvars, xvars>>

\* Request::GetPlugin
get_plugin(name) ==
    IF name \in DOMAIN plugins THEN Success(plugins[name])
    ELSE NotFound(name)

GetPlugin(c, name, ok) ==
    /\ task[c] = "running"
    /\ WriteResponse(c, get_plugin(name), ok, channel, {})
    /\ UNCHANGED <<plugins, subscribers, connections, connection_counter,
                   clock, delivered, mvars, cvars, lvars, xvars>>

\* The plugin name the calling connection is bound to, None when it has
\* none (or is not in the table).
bound_name(c) ==
    IF c \in DOMAIN connections THEN connections[c].plugin_name ELSE None

\* The answer to Subscribe and to Unsubscribe.
subscribe_response(c) ==
    IF c \notin DOMAIN connections THEN Error("Connection not found")
    ELSE IF bound_name(c) = None THEN Error("Must register plugin")
    ELSE Success(Null)

\* A Subscribe that would not test the binding.
Subscribe_unbound(c, topics, ok) ==
    /\ task[c] = "running"
    /\ subscribers' = subscribe(bound_name(c), topics)
    /\ WriteResponse(c, Success(Null), ok, channel, {bound_name(c)})
    /\ UNCHANGED <<plugins, connections, connection_counter, clock,
                   delivered, mvars, cvars, lvars, xvars>>

\* Request::Subscribe
Subscribe(c, topics, ok) ==
    /\ task[c] = "running"
    /\ LET name == bound_name(c)
       IN IF name # None
          THEN /\ subscribers' = subscribe(name, topics)
               /\ WriteResponse(c, subscribe_response(c), ok, channel, {name})
          ELSE /\ subscribers' = subscribers
               /\ WriteResponse(c, subscribe_response(c), ok, channel, {})
    /\ UNCHANGED <<plugins, connections, connection_counter, clock,
                   delivered, mvars, cvars, lvars, xvars>>

\* Request::Unsubscribe
Unsubscribe(c, topics, ok) ==
    /\ task[c] = "running"
    /\ LET name == bound_name(c)
       IN IF name # None
          THEN /\ subscribers' = unsubscribe(name, topics)
               /\ WriteResponse(c, subscribe_response(c), ok, channel, {})
          ELSE /\ subscribers' = subscribers
               /\ WriteResponse(c, subscribe_response(c), ok, channel, {})
    /\ UNCHANGED <<plugins, connections, connection_counter, clock,
                   delivered, mvars, cvars, lvars, xvars>>

\* A Publish that would attribute every event to the daemon.
publish_source_pandemic(c) == "pandemic"

\* Request::Publish
publish_source(c) ==
    IF bound_name(c) # None THEN bound_name(c) ELSE "unknown"

Publish(c, topic, data, order, ok) ==
    /\ task[c] = "running"
    /\ clock < MaxClock
    /\ clock' = clock + 1
    /\ WriteResponse(c, Success(Null), ok,
           publish([topic |-> topic, source |-> publish_source(c),
                    data |-> data, timestamp |-> Some(clock + 1)],
                   connections, order, channel), {})
    /\ UNCHANGED <<plugins, subscribers, connections, connection_counter,
                   delivered, mvars, cvars, lvars, xvars>>

\* Health metrics that would count the connections accepted so far.
collect_health_metrics_accepted ==
    [active_plugins |-> Cardinality(DOMAIN plugins),
     total_connections |-> connection_counter,
     event_bus_subscribers |-> Cardinality(DOMAIN subscribers)]

\* Request::GetHealth
collect_health_metrics ==
    [active_plugins |-> Cardinality(DOMAIN plugins),
     total_connections |-> Cardinality(DOMAIN connections),
     event_bus_subscribers |-> Cardinality(DOMAIN subscribers)]

GetHealth(c, ok) ==
    /\ task[c] = "running"
    /\ WriteResponse(c, Success(collect_health_metrics), ok, channel, {})
    /\ UNCHANGED <<plugins, subscribers, connections, connection_counter,
                   clock, delivered, mvars, cvars, lvars, xvars>>

\* The answer to a line that does not parse as a Request.
parse_error_response == Error("Invalid request")

\* A request branch that would leave the loop on a line it cannot parse.
InvalidRequest_closes(c, ok) ==
    /\ task[c] = "running"
    /\ task' = [task EXCEPT ![c] = IF ok THEN "closing" ELSE "failed"]
    /\ channel' = IF ok THEN channel ELSE [channel EXCEPT ![c] = << >>]
    /\ UNCHANGED <<plugins, subscribers, connections, connection_counter,
                   clock, delivered, answered, mvars, cvars, lvars, xvars>>

\* A line that does not parse as a Request.
InvalidRequest(c, ok) ==
    /\ task[c] = "running"
    /\ WriteResponse(c, parse_error_response, ok, channel, {})
    /\ UNCHANGED <<plugins, subscribers, connections, connection_counter,
                   clock, delivered, mvars, cvars, lvars, xvars>>

\* ------------------------------------------------------------ connection task
\* UnboundedReceiver::recv on a non-empty queue: the head and the rest.
recv_event(queue) == Head(queue)
recv_rest(queue) == Tail(queue)

\* The event branch of the select loop: the event is written to the socket;
\* a failed write breaks out of the loop.
DeliverEvent(c, ok) ==
    /\ task[c] = "running"
    /\ channel[c] # << >>
    /\ channel' = [channel EXCEPT ![c] = recv_rest(@)]
    /\ delivered' = IF ok
                    THEN [delivered EXCEPT ![c] = Append(@, recv_event(channel[c]))]
                    ELSE delivered
    /\ task' = IF ok THEN task ELSE [task EXCEPT ![c] = "closing"]
    /\ UNCHANGED <<plugins, subscribers, connections, connection_counter,
                   clock, answered, mvars, cvars, lvars, xvars>>

\* The request branch reads end of stream or an error: the loop is left.
EndOfStream(c) ==
    /\ task[c] = "running"
    /\ task' = [task EXCEPT ![c] = "closing"]
    /\ UNCHANGED <<plugins, subscribers, connections, channel,
                   connection_counter, clock, delivered, answered, mvars, cvars, lvars, xvars>>

\* Daemon::remove_connection: whether the closing connection is persistent,
\* and what is left of the registry and of the subscription table.
persistent(c) ==
    /\ c \in DOMAIN connections
    /\ connections[c].plugin_name # None
    /\ connections[c].plugin_name \in DOMAIN subscribers

\* A cleanup that would keep the plugin of a persistent connection, and one
\* that would drop the plugin of a transient connection too.
plugins_after_close_kept(c) == plugins

plugins_after_close_always(c) ==
    IF c \in DOMAIN connections /\ connections[c].plugin_name # None
    THEN remove(plugins, connections[c].plugin_name)
    ELSE plugins

plugins_after_close(c) ==
    IF persistent(c) THEN remove(plugins, connections[c].plugin_name)
    ELSE plugins

subscribers_after_close(c) ==
    IF persistent(c) THEN remove(subscribers, connections[c].plugin_name)
    ELSE subscribers

\* The cleanup after the loop, then the task returns and its socket closes.
RemoveConnection(c) ==
    /\ task[c] = "closing"
    /\ connections' = remove(connections, c)
    /\ plugins' = plugins_after_close(c)
    /\ subscribers' = subscribers_after_close(c)
    /\ channel' = remove(channel, c)
    /\ delivered' = remove(delivered, c)
    /\ task' = [task EXCEPT ![c] = "done"]
    /\ UNCHANGED <<connection_counter, clock, answered, mvars, cvars, lvars, xvars>>

\* ------------------------------------------------------------ specification
Next ==
    \/ Accept
    \/ \E c \in DOMAIN task, name \in Names, version \in Versions,
          order \in Orders(connections), ok \in BOOLEAN :
          Register(c, name, version, order, ok)
    \/ \E c \in DOMAIN task, name \in Names,
          order \in Orders(connections), ok \in BOOLEAN :
          Deregister(c, name, order, ok)
    \/ \E c \in DOMAIN task, name \in Names, ok \in BOOLEAN :
          DeregisterNotFound(c, name, ok)
    \/ \E c \in DOMAIN task, ok \in BOOLEAN : ListPlugins(c, ok)
    \/ \E c \in DOMAIN task, name \in Names, ok \in BOOLEAN :
          GetPlugin(c, name, ok)
    \/ \E c \in DOMAIN task, topics \in SubscribeLists, ok \in BOOLEAN :
          Subscribe(c, topics, ok)
    \/ \E c \in DOMAIN task, topics \in UnsubscribeLists, ok \in BOOLEAN :
          Unsubscribe(c, topics, ok)
    \/ \E c \in DOMAIN task, topic \in PublishTopics, data \in Datas,
          order \in Orders(connections), ok \in BOOLEAN :
          Publish(c, topic, data, order, ok)
    \/ \E c \in DOMAIN task, ok \in BOOLEAN : GetHealth(c, ok)
    \/ \E c \in DOMAIN task, ok \in BOOLEAN : InvalidRequest(c, ok)
    \/ \E c \in DOMAIN task, ok \in BOOLEAN : DeliverEvent(c, ok)
    \/ \E c \in DOMAIN task : EndOfStream(c)
    \/ \E c \in DOMAIN task : RemoveConnection(c)

Spec == Init /\ [][Next]_vars

\* ------------------------------------------------------------ the matcher alone
\* Every string over Chars of length at most n.
RECURSIVE StringsUpTo(_)
StringsUpTo(n) ==
    IF n = 0 THEN {<< >>}
    ELSE LET shorter == StringsUpTo(n - 1)
         IN shorter \cup {Append(s, ch) : s \in shorter, ch \in Chars}

MatchInit ==
    /\ DaemonInit
    /\ m_pattern \in StringsUpTo(MaxLen)
    /\ m_topic \in StringsUpTo(MaxLen)
    /\ m_result = << >>
    /\ ClientInit
    /\ LockInit
    /\ XInit

\* The matcher of publish applied to one subscribed pattern and one topic.
Match ==
    /\ m_result = << >>
    /\ m_result' = <<topic_matches(m_pattern, m_topic)>>
    /\ UNCHANGED <<dvars, m_pattern, m_topic, cvars, lvars, xvars>>

MatchNext == Match

MatchSpec == MatchInit /\ [][MatchNext]_vars

\* ------------------------------------------------------------ the client
\* One PersistentClient and the daemon's task for its connection, seen from
\* the socket: requests holds the lines from the client, stream the lines
\* from the daemon.  A request is its number; the Response to it carries
\* that number as data.

\* serde_json::to_string(&response): a Response is tagged by "status".
response_line(request) == [status |-> "Success", data |-> request]

\* serde_json::to_string(&Message::Event(event)): the envelope tagged Event.
event_line(n) ==
    [type |-> "Event", topic |-> <<"m">>, source |-> "pandemic", data |-> n]

\* serde_json::from_str::<Response>: a line without the status tag is an
\* error.
from_str_Response(text) ==
    IF "status" \in DOMAIN text THEN <<"Ok", text>> ELSE <<"Err">>

\* serde_json::from_str::<Message> giving Ok(Message::Event(_)).
is_event(text) == "type" \in DOMAIN text /\ text.type = "Event"

\* The newline that ends a request line, as a chunk of the byte stream
\* (a request's text is its number, 1 or more).
Newline == 0

\* PersistentClient::send_request, the first write_all: the request's text.
ClientWriteRequest ==
    /\ client = "idle"
    /\ sent < MaxRequests
    /\ sent' = sent + 1
    /\ requests' = Append(requests, sent + 1)
    /\ client' = "send_request_newline"
    /\ UNCHANGED <<stream, emitted, results, received, line, written,
                   dvars, mvars, lvars, xvars>>

\* PersistentClient::send_request, the second write_all: the newline.
ClientWriteNewline ==
    /\ client = "send_request_newline"
    /\ requests' = Append(requests, Newline)
    /\ client' = "send_request"
    /\ UNCHANGED <<stream, sent, emitted, results, received, line, written,
                   dvars, mvars, lvars, xvars>>

\* PersistentClient::send_request, one line is read and parsed as the
\* Response; the call returns.
ClientReadResponse ==
    /\ client = "send_request"
    /\ stream # << >>
    /\ results' = Append(results, [request |-> sent,
                                   returned |-> from_str_Response(Head(stream))])
    /\ stream' = Tail(stream)
    /\ client' = "idle"
    /\ UNCHANGED <<requests, sent, emitted, received, line, written,
                   dvars, mvars, lvars, xvars>>

\* PersistentClient::read_event, one turn of its loop: an Event line is
\* returned, any other line is dropped and the loop goes on.
ClientReadEvent ==
    /\ client \in {"idle", "read_event"}
    /\ stream # << >>
    /\ stream' = Tail(stream)
    /\ IF is_event(Head(stream))
       THEN /\ received' = Append(received, Head(stream))
            /\ client' = "idle"
       ELSE /\ received' = received
            /\ client' = "read_event"
    /\ UNCHANGED <<requests, sent, emitted, results, line, written,
                   dvars, mvars, lvars, xvars>>

\* handle_connection, the request branch polled while the socket holds text
\* with no newline yet: read_line takes the text and stays pending.
DaemonReadPartial ==
    /\ requests # << >>
    /\ Head(requests) # Newline
    /\ line' = Append(line, Head(requests))
    /\ requests' = Tail(requests)
    /\ UNCHANGED <<stream, client, sent, emitted, results, received, written,
                   dvars, mvars, lvars, xvars>>

\* handle_connection, the request branch: read_line completes on the
\* newline; a line that is not empty is dispatched and its Response
\* written, an empty one is skipped.
DaemonResponds ==
    /\ requests # << >>
    /\ Head(requests) = Newline
    /\ requests' = Tail(requests)
    /\ line' = << >>
    /\ IF line # << >>
       THEN /\ stream' = Append(stream, response_line(line[1]))
            /\ written' = Append(written, response_line(line[1]))
       ELSE UNCHANGED <<stream, written>>
    /\ UNCHANGED <<client, sent, emitted, results, received,
                   dvars, mvars, lvars, xvars>>

\* handle_connection, the event branch: an event of the connection's channel
\* is written.  select! drops the read_line future of this turn, and with it
\* the text that future had taken.
DaemonForwardsEvent ==
    /\ emitted < MaxEvents
    /\ emitted' = emitted + 1
    /\ stream' = Append(stream, event_line(emitted + 1))
    /\ written' = Append(written, event_line(emitted + 1))
    /\ line' = << >>
    /\ UNCHANGED <<requests, client, sent, results, received,
                   dvars, mvars, lvars, xvars>>

ClientNext ==
    \/ ClientWriteRequest
    \/ ClientWriteNewline
    \/ ClientReadResponse
    \/ ClientReadEvent
    \/ DaemonReadPartial
    \/ DaemonResponds
    \/ DaemonForwardsEvent

ClientSpec == Init /\ [][ClientNext]_vars


\* ------------------------------------------------------------ the mutex
\* The accept loop (task 0) and the connection tasks it spawns, seen from
\* the Mutex<Daemon> they share: each takes the lock around add_connection,
\* handle_request and remove_connection and holds it nowhere else.
\* A lock that would be granted while another task holds it.
lock_unguarded(t) == guard' = <<t>>

\* Mutex::lock().await completing for task t.
lock(t) == guard = << >> /\ guard' = <<t>>

\* The MutexGuard of task t going out of scope.
unlock(t) == guard = <<t>> /\ guard' = << >>

\* main: a connection is accepted and the lock is asked for.
MainAccept ==
    /\ pc[0] = "accept"
    /\ \E t \in Tasks : pc[t] = "unspawned"
    /\ pc' = [pc EXCEPT ![0] = "lock"]
    /\ UNCHANGED <<guard, dvars, mvars, cvars, xvars>>

\* main: add_connection runs under the lock.
MainLock ==
    /\ pc[0] = "lock"
    /\ lock(0)
    /\ pc' = [pc EXCEPT ![0] = "add_connection"]
    /\ UNCHANGED <<dvars, mvars, cvars, xvars>>

\* main: the guard is dropped and the connection's task spawned.
MainSpawn ==
    /\ pc[0] = "add_connection"
    /\ unlock(0)
    /\ LET t == CHOOSE u \in Tasks :
                   pc[u] = "unspawned"
                       /\ \A v \in Tasks : pc[v] = "unspawned" => u <= v
       IN pc' = [pc EXCEPT ![0] = "accept", ![t] = "select"]
    /\ UNCHANGED <<dvars, mvars, cvars, xvars>>

\* handle_connection: a request line is read and the lock is asked for.
TaskRead(t) ==
    /\ pc[t] = "select"
    /\ pc' = [pc EXCEPT ![t] = "lock_request"]
    /\ UNCHANGED <<guard, dvars, mvars, cvars, xvars>>

\* handle_connection: handle_request runs under the lock.
TaskLockRequest(t) ==
    /\ pc[t] = "lock_request"
    /\ lock(t)
    /\ pc' = [pc EXCEPT ![t] = "handle_request"]
    /\ UNCHANGED <<dvars, mvars, cvars, xvars>>

\* handle_connection: the guard is dropped at the end of the block, before
\* the response is written.
TaskUnlockRequest(t) ==
    /\ pc[t] = "handle_request"
    /\ unlock(t)
    /\ pc' = [pc EXCEPT ![t] = "write"]
    /\ UNCHANGED <<dvars, mvars, cvars, xvars>>

\* handle_connection: the response is written outside the lock; a failed
\* write returns.
TaskWrite(t, ok) ==
    /\ pc[t] = "write"
    /\ pc' = [pc EXCEPT ![t] = IF ok THEN "select" ELSE "returned"]
    /\ UNCHANGED <<guard, dvars, mvars, cvars, xvars>>

\* handle_connection: the loop is left and the lock is asked for.
TaskBreak(t) ==
    /\ pc[t] = "select"
    /\ pc' = [pc EXCEPT ![t] = "lock_cleanup"]
    /\ UNCHANGED <<guard, dvars, mvars, cvars, xvars>>

\* handle_connection: remove_connection runs under the lock.
TaskLockCleanup(t) ==
    /\ pc[t] = "lock_cleanup"
    /\ lock(t)
    /\ pc' = [pc EXCEPT ![t] = "remove_connection"]
    /\ UNCHANGED <<dvars, mvars, cvars, xvars>>

\* handle_connection: the guard is dropped and the task returns.
TaskUnlockCleanup(t) ==
    /\ pc[t] = "remove_connection"
    /\ unlock(t)
    /\ pc' = [pc EXCEPT ![t] = "returned"]
    /\ UNCHANGED <<dvars, mvars, cvars, xvars>>

LockNext ==
    \/ MainAccept
    \/ MainLock
    \/ MainSpawn
    \/ \E t \in Tasks \ {0} : TaskRead(t)
    \/ \E t \in Tasks \ {0} : TaskLockRequest(t)
    \/ \E t \in Tasks \ {0} : TaskUnlockRequest(t)
    \/ \E t \in Tasks \ {0}, ok \in BOOLEAN : TaskWrite(t, ok)
    \/ \E t \in Tasks \ {0} : TaskBreak(t)
    \/ \E t \in Tasks \ {0} : TaskLockCleanup(t)
    \/ \E t \in Tasks \ {0} : TaskUnlockCleanup(t)

LockSpec == Init /\ [][LockNext]_vars

\* ------------------------------------------------------------ REST gateway
\* The API-key check of pandemic-rest: the middleware authenticates the key
\* of a request and the handler's require_scope! authorises it.  A
\* configuration file names its identities, their keys and role lists
\* freely: nothing in AuthConfig::load checks that keys are distinct or that
\* a role is defined.
IdentityNames == {"admin", "reader"}
ApiKeys == {"admin-key", "reader-key"}
RoleLists == {<<"admin">>, <<"reader">>, <<"reader", "ghost">>, << >>}
RequiredScopes == {"plugins:read", "plugins:write"}

\* Vec::contains
contains(v, x) == \E i \in 1..Len(v) : v[i] = x

\* The loop of authenticate over identity.roles: the scopes of every role
\* that is defined, in order; an undefined role gives none.
RECURSIVE collect_scopes(_)
collect_scopes(role_names) ==
    IF role_names = << >> THEN << >>
    ELSE (IF Head(role_names) \in DOMAIN roles
          THEN roles[Head(role_names)].scopes ELSE << >>)
         \o collect_scopes(Tail(role_names))

\* AuthConfig::authenticate: identities.values().find(..) takes the first
\* identity, in the map's iteration order, that has the key.
authenticate(api_key, order) ==
    LET hits == {i \in DOMAIN order : identities[order[i]].api_key = api_key}
    IN IF hits = {} THEN NoScopes
       ELSE LET first == CHOOSE i \in hits : \A j \in hits : i <= j
            IN Some(collect_scopes(identities[order[first]].roles))

\* AuthConfig::authorize
authorize(scopes, required_scope) ==
    contains(scopes, "*") \/ contains(scopes, required_scope)

\* auth_middleware on a request carrying "Bearer <api_key>": 401 for a key
\* authenticate does not know, else the scopes go into the request's
\* extensions and the handler runs.
auth_middleware(api_key, order) ==
    /\ http_request.phase = "idle"
    /\ LET scopes == authenticate(api_key, order)
       IN http_request' =
              IF scopes = NoScopes
              THEN [phase |-> "idle", api_key |-> api_key,
                    extensions |-> NoScopes, required |-> "", status |-> 401]
              ELSE [phase |-> "handler", api_key |-> api_key,
                    extensions |-> scopes, required |-> "", status |-> 0]
    /\ UNCHANGED <<identities, roles, dvars, mvars, cvars, lvars,
                   uvars, wvars, hvars>>

\* require_scope! at the head of a handler: 403 unless authorize accepts the
\* scopes of the extensions; 200 stands for the handler going on.
require_scope(required) ==
    /\ http_request.phase = "handler"
    /\ http_request' =
           [http_request EXCEPT
               !.phase = "idle",
               !.required = required,
               !.status = IF authorize(http_request.extensions[1], required)
                          THEN 200 ELSE 403]
    /\ UNCHANGED <<identities, roles, dvars, mvars, cvars, lvars,
                   uvars, wvars, hvars>>

\* Any configuration file over the names above.
AuthInit ==
    /\ DaemonInit
    /\ ClientInit
    /\ LockInit
    /\ m_pattern = << >>
    /\ m_topic = << >>
    /\ m_result = << >>
    /\ UdpInit
    /\ WsInit
    /\ HealthInit
    /\ identities \in [IdentityNames -> [api_key : ApiKeys, roles : RoleLists]]
    /\ roles = TestRoles
    /\ http_request = NoRequest

AuthNext ==
    \/ \E api_key \in ApiKeys \cup {"invalid-key"},
          order \in Orders(identities) : auth_middleware(api_key, order)
    \/ \E required \in RequiredScopes : require_scope(required)

AuthSpec == AuthInit /\ [][AuthNext]_vars

\* ------------------------------------------------------------ UDP bridge
\* pandemic-udp: run_udp_server and the deregister monitor task share one
\* PersistentClient behind a Mutex.  The client and its socket are those of
\* the client section; the daemon's side of the connection is its
\* DaemonReadPartial, DaemonResponds and DaemonForwardsEvent.  The events
\* forwarded here announce other plugins, so the monitor goes on.

\* run_udp_server: recv_from gives a datagram and proxy_request asks for the
\* client.
UdpRecv ==
    /\ proxy = "select"
    /\ datagrams < MaxRequests
    /\ datagrams' = datagrams + 1
    /\ proxy' = "lock"
    /\ UNCHANGED <<client_guard, monitor, replies, seen,
                   dvars, mvars, cvars, lvars, avars, wvars, hvars>>

\* proxy_request: client.lock().await completes.
ProxyLock ==
    /\ proxy = "lock"
    /\ client_guard = << >>
    /\ client_guard' = <<"proxy">>
    /\ proxy' = "send_request"
    /\ UNCHANGED <<monitor, datagrams, replies, seen,
                   dvars, mvars, cvars, lvars, avars, wvars, hvars>>

\* proxy_request: client_guard.send_request, step by step.
ProxySendRequest ==
    /\ proxy = "send_request"
    /\ client_guard = <<"proxy">>
    /\ sent < datagrams
    /\ ClientWriteRequest

ProxyWriteNewline ==
    /\ client_guard = <<"proxy">>
    /\ ClientWriteNewline

ProxyReadResponse ==
    /\ client_guard = <<"proxy">>
    /\ ClientReadResponse

\* proxy_request returns, its guard dropped, and run_udp_server sends the
\* response (or the error) back to the datagram's sender.
ProxyReply ==
    /\ proxy = "send_request"
    /\ client_guard = <<"proxy">>
    /\ client = "idle"
    /\ Len(results) = datagrams
    /\ client_guard' = << >>
    /\ replies' = Append(replies, results[Len(results)].returned)
    /\ proxy' = "select"
    /\ UNCHANGED <<monitor, datagrams, seen,
                   dvars, mvars, cvars, lvars, avars, wvars, hvars>>

\* The monitor task: client_clone.lock().await completes.
MonitorLock ==
    /\ monitor = "lock"
    /\ client_guard = << >>
    /\ client_guard' = <<"monitor">>
    /\ monitor' = "read_event"
    /\ UNCHANGED <<proxy, datagrams, replies, seen,
                   dvars, mvars, cvars, lvars, avars, wvars, hvars>>

\* The monitor task: client_guard.read_event().await, one line at a time,
\* the guard held throughout.
MonitorReadLine ==
    /\ monitor = "read_event"
    /\ client_guard = <<"monitor">>
    /\ Len(received) = seen
    /\ ClientReadEvent

\* The monitor task: read_event has returned an event, the guard is dropped
\* and the loop starts over.
MonitorEvent ==
    /\ monitor = "read_event"
    /\ client_guard = <<"monitor">>
    /\ Len(received) > seen
    /\ seen' = seen + 1
    /\ client_guard' = << >>
    /\ monitor' = "lock"
    /\ UNCHANGED <<proxy, datagrams, replies,
                   dvars, mvars, cvars, lvars, avars, wvars, hvars>>

\* The steps pandemic-udp and the daemon take by themselves: every step but
\* the arrival of a datagram and the publication of an event.
UdpProgress ==
    \/ ProxyLock
    \/ ProxySendRequest
    \/ ProxyWriteNewline
    \/ ProxyReadResponse
    \/ ProxyReply
    \/ MonitorLock
    \/ MonitorReadLine
    \/ MonitorEvent
    \/ DaemonReadPartial
    \/ DaemonResponds

UdpNext ==
    \/ UdpRecv
    \/ DaemonForwardsEvent
    \/ UdpProgress

UdpSpec == Init /\ [][UdpNext]_vars

\* ------------------------------------------------------------ WebSocket
\* handle_websocket of pandemic-rest: each upgraded WebSocket opens its own
\* connection to the daemon and sends one Subscribe on it, never a Register.
\* Plugins use the other connections.  The handler's forwarding task only
\* reads what the daemon enqueues for the handler's connection.
WsTopics == SubscribeLists \cup {<< <<"*">> >>}

\* DaemonClient::connect succeeded on a connection the daemon has accepted:
\* the handler is about to subscribe with the topics of its query.
WsConnect(c, topics) ==
    /\ c \in DOMAIN connections
    /\ c \notin DOMAIN websockets
    /\ task[c] = "running"
    /\ bound_name(c) = None
    /\ websockets' = insert(websockets, c,
                            [phase |-> "subscribe", topics |-> topics,
                             sent |-> << >>])
    /\ UNCHANGED <<dvars, mvars, cvars, lvars, avars, uvars, hvars>>

\* PersistentClient::subscribe as handle_websocket sees it: Ok(()) for any
\* Response line read, whatever its status; Err when none can be read.
client_subscribe(response, ok) == IF ok THEN "Ok" ELSE "Err"

\* daemon_client.subscribe(topics): the daemon dispatches the Subscribe and
\* writes its response; on Ok the handler tells its client "connected", on
\* Err it sends an error message and returns.
WsSubscribe(c, ok) ==
    /\ c \in DOMAIN websockets
    /\ websockets[c].phase = "subscribe"
    /\ task[c] = "running"
    /\ LET name == bound_name(c)
           topics == websockets[c].topics
       IN /\ subscribers' = IF name # None THEN subscribe(name, topics)
                            ELSE subscribers
          /\ WriteResponse(c, subscribe_response(c), ok, channel,
                           IF name # None THEN {name} ELSE {})
          /\ websockets' =
                 [websockets EXCEPT
                     ![c].phase =
                         IF client_subscribe(subscribe_response(c), ok) = "Ok"
                         THEN "forward" ELSE "returned",
                     ![c].sent =
                         IF client_subscribe(subscribe_response(c), ok) = "Ok"
                         THEN Append(@, [type |-> "connected",
                                         topics |-> topics])
                         ELSE Append(@, [type |-> "error"])]
    /\ UNCHANGED <<plugins, connections, connection_counter, clock,
                   delivered, mvars, cvars, lvars, avars, uvars, hvars>>

\* The connections plugins use.
Plugin(c) == c \in DOMAIN task /\ c \notin DOMAIN websockets

WsNext ==
    \/ Accept
    \/ \E c \in DOMAIN task, topics \in WsTopics : WsConnect(c, topics)
    \/ \E c \in DOMAIN task, ok \in BOOLEAN : WsSubscribe(c, ok)
    \/ \E c \in DOMAIN task, name \in Names, version \in Versions,
          order \in Orders(connections), ok \in BOOLEAN :
          Plugin(c) /\ Register(c, name, version, order, ok)
    \/ \E c \in DOMAIN task, topics \in SubscribeLists, ok \in BOOLEAN :
          Plugin(c) /\ Subscribe(c, topics, ok)
    \/ \E c \in DOMAIN task, topic \in PublishTopics, data \in Datas,
          order \in Orders(connections), ok \in BOOLEAN :
          Plugin(c) /\ Publish(c, topic, data, order, ok)
    \/ \E c \in DOMAIN task, ok \in BOOLEAN :
          Plugin(c) /\ DeliverEvent(c, ok)

WsSpec == Init /\ [][WsNext]_vars

\* ------------------------------------------------------------ health proxy
\* The health check loop of pandemic-proxy, a health_check command being
\* configured.  health_log keeps, for every check, what run_health_check
\* returned and the Publish request sent for it, if one was.

\* What run_health_check returns: Ok(true), Ok(false) or Err.
HealthResults == {<<"Ok", TRUE>>, <<"Ok", FALSE>>, <<"Err">>}

\* format!("health.{}", config.infection.name), "h" abbreviating the text.
HealthTopic == <<"h">>

\* A test that would publish after every check.
status_changed_always(last, is_healthy) == TRUE

\* last_health_status != Some(is_healthy)
status_changed(last, is_healthy) == last # Some(is_healthy)

\* The data of the event published for a check.
health_data(result) ==
    IF result[1] = "Err" THEN [status |-> "error", healthy |-> FALSE]
    ELSE [status |-> IF result[2] THEN "healthy" ELSE "unhealthy",
          healthy |-> result[2]]

\* One turn of the loop on the sleep branch: the check is run; when its
\* outcome (an error counting as not healthy) is not the recorded one, a
\* Publish of health.<name> is sent and the outcome recorded, whether or not
\* the request went through (ok).
HealthCheck(result, ok) ==
    /\ child = "running"
    /\ Len(health_log) < MaxChecks
    /\ LET is_healthy == result[1] = "Ok" /\ result[2]
       IN IF status_changed(last_health_status, is_healthy)
          THEN /\ health_log' =
                      Append(health_log,
                             [result |-> result,
                              publish |-> <<[topic |-> HealthTopic,
                                             data |-> health_data(result),
                                             sent |-> ok]>>])
               /\ last_health_status' = Some(is_healthy)
          ELSE /\ health_log' = Append(health_log,
                                       [result |-> result, publish |-> << >>])
               /\ last_health_status' = last_health_status
    /\ UNCHANGED <<child, dvars, mvars, cvars, lvars, avars, uvars, wvars>>

\* The loop's other branch: the child has exited and the loop is left.
ChildExit ==
    /\ child = "running"
    /\ child' = "exited"
    /\ UNCHANGED <<last_health_status, health_log,
                   dvars, mvars, cvars, lvars, avars, uvars, wvars>>

HealthNext ==
    \/ \E result \in HealthResults, ok \in BOOLEAN : HealthCheck(result, ok)
    \/ ChildExit

HealthSpec == Init /\ [][HealthNext]_vars

\* ------------------------------------------------------------ claims
\* A connection is open while its task runs the select loop.
Open(c) == c \in DOMAIN connections /\ task[c] = "running"

\* C1: no two distinct open connections of the connection table are bound to
\* the same plugin name.
C1_UniqueBinding ==
    \A c, d \in DOMAIN connections :
        (Open(c) /\ Open(d) /\ c # d /\ bound_name(c) # None)
            => bound_name(c) # bound_name(d)

\* C2: every key of the subscription table is a key of the plugin registry.
C2_SubscribersRegistered == DOMAIN subscribers \subseteq DOMAIN plugins

\* C3: the bound plugin name of every open connection is a key of the plugin
\* registry.
C3_BoundNameRegistered ==
    \A c \in DOMAIN connections :
        (Open(c) /\ bound_name(c) # None) => bound_name(c) \in DOMAIN plugins

\* C4: whenever a step enqueues an event on a connection's channel, the
\* subscription list that the connection's bound plugin had when the event
\* was published holds a pattern matching the event's topic.
C4_EnqueuedOnlyIfMatched ==
    [][\A c \in DOMAIN channel \cap DOMAIN channel' :
          Len(channel'[c]) > Len(channel[c]) =>
              LET event == channel'[c][Len(channel'[c])]
                  name == connections'[c].plugin_name
              IN /\ name \in DOMAIN subscribers
                 /\ matches(subscribers[name], event)]_vars

\* C4 happens: an event published by a connection whose own list does not
\* match it was written to another connection and not to the publisher.
C4_Witness ==
    \E c, d \in DOMAIN connections :
        /\ c # d
        /\ delivered[c] # << >>
        /\ delivered[c][1].topic \in PublishTopics
        /\ delivered[c][1].source = bound_name(d)
        /\ bound_name(d) \in DOMAIN subscribers
        /\ ~matches(subscribers[bound_name(d)], delivered[c][1])
        /\ channel[d] = << >>
        /\ delivered[d] = << >>

DueTo(topic) ==
    {d \in DOMAIN connections :
        /\ Open(d)
        /\ bound_name(d) \in DOMAIN subscribers
        /\ \E i \in 1..Len(subscribers[bound_name(d)]) :
              topic_matches(subscribers[bound_name(d)][i], topic)
        /\ \A e \in DOMAIN connections : bound_name(e) = bound_name(d) => e = d}

\* C6: when a persistent connection bound to P closes, every other
\* subscriber whose patterns match plugin.deregistered is sent a
\* plugin.deregistered event with data {name: P}.
C6_CloseEmitsDeregistered ==
    [][\A c \in DOMAIN task :
          (RemoveConnection(c) /\ persistent(c)) =>
              \A d \in DueTo(TopicDeregistered) \ {c} :
                  /\ Len(channel'[d]) = Len(channel[d]) + 1
                  /\ channel'[d][Len(channel'[d])].topic = TopicDeregistered
                  /\ channel'[d][Len(channel'[d])].data
                        = [name |-> bound_name(c)]]_vars

\* C7: when a connection closes that is bound to a plugin and never had a
\* Subscribe answered Success, the close changes neither the registry nor
\* the subscription table.
C7_TransientCloseKeeps ==
    [][\A c \in DOMAIN task :
          (RemoveConnection(c) /\ bound_name(c) # None /\ answered[c] = {}) =>
              /\ plugins' = plugins
              /\ subscribers' = subscribers
              /\ \A name \in DOMAIN plugins :
                    bound_name(c) = name =>
                        (get_plugin(name))'.status = "Success"]_vars

Increasing(events) ==
    \A i, j \in 1..Len(events) :
        i < j => events[i].timestamp[1] < events[j].timestamp[1]

\* C8: on every connection the events written to the socket followed by the
\* events waiting on the channel are in the order the dispatcher accepted
\* their publishes.
C8_PerSubscriberOrder ==
    \A c \in DOMAIN connections : Increasing(delivered[c] \o channel[c])

\* C8 happens: two Publish requests reached one subscriber's socket.
C8_Witness ==
    \E c \in DOMAIN connections :
        /\ Len(delivered[c]) >= 2
        /\ delivered[c][1].topic \in PublishTopics
        /\ delivered[c][2].topic \in PublishTopics

\* The matching the claim describes: a pattern ending in '*' matches the
\* topics that start with everything before that final '*', any other
\* pattern matches the topic equal to it.
ReferenceMatch(pattern, topic) ==
    IF ends_with(pattern, "*")
    THEN starts_with(topic, SubSeq(pattern, 1, Len(pattern) - 1))
    ELSE topic = pattern

\* C9: the matcher used by publish agrees with the reference matching on
\* every pattern and topic.
C9_MatcherAgreesWithReference ==
    m_result # << >> => m_result[1] = ReferenceMatch(m_pattern, m_topic)

\* C10: a Register of P leaves P observable by GetPlugin (Success, the
\* record, registered_at set) and by ListPlugins, and what GetPlugin and
\* ListPlugins show of a registered plugin changes only by a Register or
\* Deregister of its name or by the close of a persistent connection bound
\* to it.
C10_RegisteredObservable ==
    [][/\ \A c \in DOMAIN task, name \in Names, version \in Versions,
             order \in Orders(connections), ok \in BOOLEAN :
             Register(c, name, version, order, ok) =>
                 /\ (get_plugin(name))'.status = "Success"
                 /\ (get_plugin(name))'.data.name = name
                 /\ (get_plugin(name))'.data.registered_at # NoTime
                 /\ (get_plugin(name))'.data \in (list_plugins)'.data
       /\ \A name \in DOMAIN plugins :
             \/ /\ (get_plugin(name))'.status = "Success"
                /\ (get_plugin(name))'.data = plugins[name]
                /\ plugins[name] \in (list_plugins)'.data
             \/ \E c \in DOMAIN task, version \in Versions,
                   order \in Orders(connections), ok \in BOOLEAN :
                   Register(c, name, version, order, ok)
             \/ \E c \in DOMAIN task, order \in Orders(connections),
                   ok \in BOOLEAN : Deregister(c, name, order, ok)
             \/ \E c \in DOMAIN task :
                   /\ RemoveConnection(c)
                   /\ persistent(c)
                   /\ bound_name(c) = name]_vars

\* C10 happens: a plugin registered on one connection is in the registry
\* after that connection has closed and another one is open.
C10_Witness ==
    \E c, d \in DOMAIN task :
        /\ task[c] = "done"
        /\ task[d] = "running"
        /\ bound_name(d) = None
        /\ \E name \in DOMAIN plugins : get_plugin(name).status = "Success"

\* C11: every Register{P} answered Success enqueues the plugin.registered
\* event (source "pandemic", data P's record) on the channel of a connection
\* bound to each plugin whose subscription list, when the request is
\* dispatched, holds a pattern matching plugin.registered.
C11_RegisterReachesSubscribers ==
    [][\A c \in DOMAIN task, name \in Names, version \in Versions,
          order \in Orders(connections) :
          Register(c, name, version, order, TRUE) =>
              \A n \in DOMAIN subscribers :
                  matches(subscribers[n], [topic |-> TopicRegistered]) =>
                      \E d \in DOMAIN connections :
                          /\ connections'[d].plugin_name = n
                          /\ channel'[d] # << >>
                          /\ LET event == channel'[d][Len(channel'[d])]
                             IN /\ Len(channel'[d]) = Len(channel[d]) + 1
                                /\ event.topic = TopicRegistered
                                /\ event.source = "pandemic"
                                /\ event.data = plugins'[name]]_vars

\* C12: a Deregister{P} answered Success leaves GetPlugin{P} answering
\* NotFound, no record named P in ListPlugins and no entry for P in the
\* subscription table; P comes back into the registry only by a Register{P}
\* and into the subscription table only by a Subscribe on a connection bound
\* to P.
C12_DeregisterRemoves ==
    [][/\ \A c \in DOMAIN task, name \in Names,
             order \in Orders(connections), ok \in BOOLEAN :
             Deregister(c, name, order, ok) =>
                 /\ (get_plugin(name))'.status = "NotFound"
                 /\ \A plugin \in (list_plugins)'.data : plugin.name # name
                 /\ name \notin DOMAIN subscribers'
       /\ \A name \in Names :
             /\ (name \notin DOMAIN plugins /\ name \in DOMAIN plugins') =>
                   \E c \in DOMAIN task, version \in Versions,
                      order \in Orders(connections), ok \in BOOLEAN :
                      Register(c, name, version, order, ok)
             /\ (name \notin DOMAIN subscribers
                    /\ name \in DOMAIN subscribers') =>
                   \E c \in DOMAIN task, topics \in SubscribeLists,
                      ok \in BOOLEAN :
                      bound_name(c) = name /\ Subscribe(c, topics, ok)]_vars

\* C12 happens: the only connection there has been registered P, subscribed
\* under P and deregistered P; it is still open and bound to P, and P is in
\* neither table.
C12_Witness ==
    \E c \in DOMAIN connections :
        /\ connection_counter = 1
        /\ Open(c)
        /\ bound_name(c) \in answered[c]
        /\ bound_name(c) \notin DOMAIN plugins
        /\ bound_name(c) \notin DOMAIN subscribers
        /\ get_plugin(bound_name(c)).status = "NotFound"

\* C13: a Register on a connection already bound to another name changes
\* neither the binding nor the registry nor the subscription table, and the
\* bound name of a connection, once set, never changes.
C13_BoundNameNeverChanges ==
    [][/\ \A c \in DOMAIN task, name \in Names, version \in Versions,
             order \in Orders(connections), ok \in BOOLEAN :
             (Register(c, name, version, order, ok)
                 /\ bound_name(c) # None /\ bound_name(c) # name) =>
                 /\ connections' = connections
                 /\ plugins' = plugins
                 /\ subscribers' = subscribers
       /\ \A c \in DOMAIN connections \cap DOMAIN connections' :
             bound_name(c) # None =>
                 connections'[c].plugin_name = bound_name(c)]_vars

\* The connections bound to a name.
BoundTo(n) == {d \in DOMAIN connections : bound_name(d) = n}

\* C14: when an event is published while the channel of a matching
\* subscriber is closed, every other matching subscriber (one whose bound
\* connections all have an open channel) still has the event enqueued.
C14_ClosedChannelIsolated ==
    [][\A c \in DOMAIN task, topic \in PublishTopics, data \in Datas,
          order \in Orders(connections) :
          Publish(c, topic, data, order, TRUE) =>
              LET event == [topic |-> topic, source |-> publish_source(c),
                            data |-> data, timestamp |-> Some(clock')]
                  matching == {n \in DOMAIN subscribers :
                                  matches(subscribers[n], event)}
                  closed == {n \in matching :
                                \E d \in BoundTo(n) : task[d] = "failed"}
              IN closed # {} =>
                     \A n \in matching \ closed :
                         BoundTo(n) # {} =>
                             \E d \in BoundTo(n) :
                                 channel'[d] = Append(channel[d], event)]_vars

\* C14 happens: one subscriber of m has a closed channel (its task returned
\* on a failed write and its record is still in the table), and the latest
\* reading of the clock is a Publish of m that reached another subscriber.
C14_Witness ==
    \E c, d \in DOMAIN connections :
        /\ task[c] = "failed"
        /\ bound_name(c) \in DOMAIN subscribers
        /\ matches(subscribers[bound_name(c)], [topic |-> <<"m">>])
        /\ Open(d)
        /\ bound_name(d) # bound_name(c)
        /\ bound_name(d) \in DOMAIN subscribers
        /\ LET got == delivered[d] \o channel[d]
           IN /\ got # << >>
              /\ got[Len(got)].topic = <<"m">>
              /\ got[Len(got)].timestamp = Some(clock)

\* C15: a Subscribe or Unsubscribe on a connection with no bound name is
\* answered Error and changes neither the registry, nor the subscription
\* table, nor any binding, nor any channel.
C15_UnboundSubscribeRefused ==
    [][\A c \in DOMAIN connections, ok \in BOOLEAN :
          bound_name(c) = None =>
              /\ \A topics \in SubscribeLists :
                    Subscribe(c, topics, ok) =>
                        /\ subscribe_response(c).status = "Error"
                        /\ plugins' = plugins
                        /\ subscribers' = subscribers
                        /\ connections' = connections
                        /\ channel' = channel
              /\ \A topics \in UnsubscribeLists :
                    Unsubscribe(c, topics, ok) =>
                        /\ subscribe_response(c).status = "Error"
                        /\ plugins' = plugins
                        /\ subscribers' = subscribers
                        /\ connections' = connections
                        /\ channel' = channel]_vars

\* C15 happens: a connection with no bound name is open beside a registered
\* and subscribed plugin, and its Subscribe is answered Error (the state a
\* refused request leaves is the state it found).
C15_Witness ==
    \E c, d \in DOMAIN connections :
        /\ Open(c)
        /\ bound_name(c) = None
        /\ subscribe_response(c).status = "Error"
        /\ channel[c] = << >>
        /\ Open(d)
        /\ bound_name(d) \in DOMAIN plugins
        /\ bound_name(d) \in DOMAIN subscribers

\* C16: after a Subscribe on a connection bound to P, P's list is the list
\* supplied, a topic that no supplied pattern matches is not matched by P's
\* list, and the entries of the other plugins are as before.
C16_SubscribeReplaces ==
    [][\A c \in DOMAIN connections, topics \in SubscribeLists,
          ok \in BOOLEAN, name \in Names :
          (Subscribe(c, topics, ok) /\ bound_name(c) = name) =>
              /\ DOMAIN subscribers' = DOMAIN subscribers \cup {name}
              /\ subscribers'[name] = topics
              /\ \A other \in DOMAIN subscribers \ {name} :
                    subscribers'[other] = subscribers[other]
              /\ \A topic \in PublishTopics
                        \cup {TopicRegistered, TopicDeregistered} :
                    (\A i \in 1..Len(topics) :
                        ~ReferenceMatch(topics[i], topic))
                        => ~matches(subscribers'[name], [topic |-> topic])]_vars

\* C16 happens: an open connection bound to P was sent a plugin event (its
\* list then held plugin.*), and P's list is now m alone.
C16_Witness ==
    \E c \in DOMAIN connections :
        /\ Open(c)
        /\ bound_name(c) \in answered[c]
        /\ bound_name(c) \in DOMAIN subscribers
        /\ subscribers[bound_name(c)] = << <<"m">> >>
        /\ delivered[c] # << >>
        /\ delivered[c][1].topic = TopicRegistered
        /\ ~matches(subscribers[bound_name(c)], [topic |-> TopicRegistered])

\* C17: an Unsubscribe on a connection bound to P is answered Success; P's
\* list loses the listed patterns and keeps the others in their order, the
\* entries of the other plugins are as before, and an entry stays an entry
\* (empty if need be), so that P still counts as a subscriber and its
\* connection as persistent.
C17_UnsubscribeRemovesListed ==
    [][\A c \in DOMAIN connections, topics \in UnsubscribeLists,
          ok \in BOOLEAN, name \in Names :
          (Unsubscribe(c, topics, ok) /\ bound_name(c) = name) =>
              /\ subscribe_response(c).status = "Success"
              /\ DOMAIN subscribers' = DOMAIN subscribers
              /\ \A other \in DOMAIN subscribers \ {name} :
                    subscribers'[other] = subscribers[other]
              /\ (collect_health_metrics)'.event_bus_subscribers
                    = collect_health_metrics.event_bus_subscribers
              /\ name \in DOMAIN subscribers =>
                    LET old == subscribers[name]
                        new == subscribers'[name]
                        listed == {topics[i] : i \in 1..Len(topics)}
                    IN /\ \A i \in 1..Len(new) : new[i] \notin listed
                       /\ Len(new) = Cardinality({a \in 1..Len(old) :
                                                    old[a] \notin listed})
                       /\ \A i \in 1..Len(new) :
                             \E a \in 1..Len(old) : old[a] = new[i]
                       /\ \A i, j \in 1..Len(new) :
                             i < j => \E a, b \in 1..Len(old) :
                                          /\ a < b
                                          /\ old[a] = new[i]
                                          /\ old[b] = new[j]
                       /\ ok => (name \in DOMAIN subscribers'
                                    /\ connections'[c].plugin_name = name)]_vars

\* C17 happens: every pattern of P was unsubscribed; P's entry is there and
\* empty, and its connection counts as persistent.
C17_Witness ==
    \E c \in DOMAIN connections :
        /\ Open(c)
        /\ bound_name(c) \in DOMAIN subscribers
        /\ subscribers[bound_name(c)] = << >>
        /\ persistent(c)
        /\ collect_health_metrics.event_bus_subscribers >= 1

\* C18: a line that is not a valid Request is answered Error and changes
\* neither the registry, nor the subscription table, nor the connection
\* table; when the answer is written the connection is as it was, open, and
\* a ListPlugins that follows is answered Success.
C18_InvalidRequestKeepsConnection ==
    [][\A c \in DOMAIN task, ok \in BOOLEAN :
          InvalidRequest(c, ok) =>
              /\ parse_error_response.status = "Error"
              /\ plugins' = plugins
              /\ subscribers' = subscribers
              /\ connections' = connections
              /\ clock' = clock
              /\ ok => /\ task'[c] = "running"
                       /\ channel' = channel
                       /\ delivered' = delivered
                       /\ (list_plugins)'.status = "Success"]_vars

\* C18 happens: the connection of a registered and subscribed plugin is open
\* and nothing is queued for it (the state an answered invalid line leaves
\* is the state it found).
C18_Witness ==
    \E c \in DOMAIN connections :
        /\ Open(c)
        /\ persistent(c)
        /\ bound_name(c) \in DOMAIN plugins
        /\ parse_error_response.status = "Error"
        /\ list_plugins.status = "Success"

\* C19: a connection whose task has ended, for whatever reason, has no
\* record in the connection table.
C19_EndedTaskHasNoRecord ==
    \A c \in DOMAIN task :
        task[c] \in {"failed", "done"} => c \notin DOMAIN connections

\* C20: every send_request returns Ok with the Response the daemon wrote to
\* that request.
C20_SendRequestGetsItsResponse ==
    \A i \in 1..Len(results) :
        results[i].returned = <<"Ok", response_line(results[i].request)>>

\* C21: the GetHealth response to an open connection reports as
\* active_plugins the number of names GetPlugin answers Success for (the
\* length of the ListPlugins listing), as event_bus_subscribers the number
\* of names with a subscription entry and as total_connections the number of
\* connection ids with a record in the connection table.
C21_HealthCounts ==
    \A c \in DOMAIN task :
        task[c] = "running" =>
            LET health == collect_health_metrics
            IN /\ health.active_plugins
                     = Cardinality({n \in Names :
                                       get_plugin(n).status = "Success"})
               /\ health.active_plugins = Cardinality(list_plugins.data)
               /\ health.event_bus_subscribers
                     = Cardinality({n \in Names : n \in DOMAIN subscribers})
               /\ health.total_connections
                     = Cardinality({d \in 1..connection_counter :
                                       d \in DOMAIN connections})

\* C21 happens: GetHealth can be dispatched where the three counts differ
\* from what has been accepted and registered in all: two plugins, one
\* subscriber, one connection left of two.
C21_Witness ==
    \E c \in DOMAIN task :
        /\ task[c] = "running"
        /\ connection_counter = 2
        /\ collect_health_metrics.active_plugins = 2
        /\ collect_health_metrics.event_bus_subscribers = 1
        /\ collect_health_metrics.total_connections = 1

\* C22: the id given to a new connection is greater than the id of every
\* earlier connection, open or closed, and so equals none of them.
C22_IdsNeverReused ==
    [][\A id \in DOMAIN connections' \ DOMAIN connections :
          /\ id \notin DOMAIN task
          /\ \A earlier \in DOMAIN task : earlier < id]_vars

\* C22 happens: a connection was accepted after an earlier one had closed
\* and left the table.
C22_Witness ==
    \E c, d \in DOMAIN task :
        /\ c < d
        /\ task[c] = "done"
        /\ c \notin DOMAIN connections
        /\ d \in DOMAIN connections

\* C23: a Deregister of a name absent from the registry reads no clock and
\* enqueues no event, and leaves the registry, the subscription table and
\* the connection table as they are; the dispatcher takes the Success arm
\* of Deregister only for a registered name; GetPlugin of an absent name is
\* answered NotFound.
C23_AbsentNameNotFound ==
    [][/\ \A c \in DOMAIN task, name \in Names, ok \in BOOLEAN :
             DeregisterNotFound(c, name, ok) =>
                 /\ name \notin DOMAIN plugins
                 /\ (get_plugin(name)).status = "NotFound"
                 /\ (get_plugin(name))'.status = "NotFound"
                 /\ plugins' = plugins
                 /\ subscribers' = subscribers
                 /\ connections' = connections
                 /\ clock' = clock
                 /\ \A d \in DOMAIN channel :
                       Len(channel'[d]) <= Len(channel[d])
       /\ \A c \in DOMAIN task, name \in Names,
             order \in Orders(connections), ok \in BOOLEAN :
             Deregister(c, name, order, ok) => name \in DOMAIN plugins]_vars

\* C23 happens: a connection is open while a name is absent from the
\* registry and still has a subscription entry, which a Deregister of that
\* name leaves in place.
C23_Witness ==
    \E c \in DOMAIN connections, name \in Names :
        /\ Open(c)
        /\ name \notin DOMAIN plugins
        /\ name \in DOMAIN subscribers
        /\ get_plugin(name).status = "NotFound"

\* C24: a Deregister removes no record from the connection table and ends
\* no task: every connection open before it, one bound to the name
\* included, is open after it (the caller's when its response is written).
C24_DeregisterKeepsConnections ==
    [][\A c \in DOMAIN task, name \in Names,
          order \in Orders(connections), ok \in BOOLEAN :
          Deregister(c, name, order, ok) =>
              /\ connections' = connections
              /\ \A d \in DOMAIN task :
                    (d # c \/ ok) => task'[d] = task[d]]_vars

\* C24 happens: after the Register of P on one connection and the
\* Deregister of P, that connection is open and bound to P beside another
\* open connection.
C24_Witness ==
    \E c, d \in DOMAIN connections :
        /\ c # d
        /\ Open(c)
        /\ Open(d)
        /\ clock = 2
        /\ plugins = << >>
        /\ bound_name(c) # None
        /\ bound_name(d) = None

\* C25: a Publish changes neither the registry, nor the subscription table,
\* nor any binding, and every event it enqueues carries its topic, its data
\* and, as source, the bound name of the calling connection, "unknown" when
\* that connection has none.
C25_PublishSource ==
    [][\A c \in DOMAIN task, topic \in PublishTopics, data \in Datas,
          order \in Orders(connections), ok \in BOOLEAN :
          Publish(c, topic, data, order, ok) =>
              /\ plugins' = plugins
              /\ subscribers' = subscribers
              /\ connections' = connections
              /\ \A d \in DOMAIN channel :
                    Len(channel'[d]) > Len(channel[d]) =>
                        LET event == channel'[d][Len(channel'[d])]
                        IN /\ event.topic = topic
                           /\ event.data = data
                           /\ event.source =
                                 IF c \in DOMAIN connections
                                       /\ connections[c].plugin_name # None
                                 THEN connections[c].plugin_name
                                 ELSE "unknown"]_vars

\* C25 happens: a subscriber was written an event of a bound publisher and
\* an event of a publisher with no binding.
C25_Witness ==
    \E d \in DOMAIN connections :
        \E i, j \in 1..Len(delivered[d]) :
            /\ delivered[d][i].topic \in PublishTopics
            /\ delivered[d][i].source = "unknown"
            /\ delivered[d][j].topic \in PublishTopics
            /\ delivered[d][j].source \in Names

\* C26: a Register of a name already in the registry stores the new record
\* (registered_at read anew) in place of the old one, leaves the other
\* records alone, and enqueues plugin.registered with the new record for
\* every subscriber that matches it and has one connection, open, bound to
\* it.
C26_LastWriteWins ==
    [][\A c \in DOMAIN task, name \in Names, version \in Versions,
          order \in Orders(connections), ok \in BOOLEAN :
          (Register(c, name, version, order, ok) /\ name \in DOMAIN plugins) =>
              /\ name \in DOMAIN plugins'
              /\ plugins'[name] = [name |-> name, version |-> version,
                                   registered_at |-> Some(clock')]
              /\ plugins'[name].registered_at # plugins[name].registered_at
              /\ (get_plugin(name))'.status = "Success"
              /\ \A other \in DOMAIN plugins \ {name} :
                    other \in DOMAIN plugins'
                        /\ plugins'[other] = plugins[other]
              /\ \A d \in DOMAIN connections :
                    LET n == connections'[d].plugin_name
                    IN (/\ (d # c \/ ok)
                        /\ task[d] \in {"running", "closing"}
                        /\ n \in DOMAIN subscribers
                        /\ matches(subscribers[n], [topic |-> TopicRegistered])
                        /\ \A e \in DOMAIN connections :
                              connections'[e].plugin_name = n => e = d)
                       => /\ Len(channel'[d]) = Len(channel[d]) + 1
                          /\ LET event == channel'[d][Len(channel'[d])]
                             IN /\ event.topic = TopicRegistered
                                /\ event.source = "pandemic"
                                /\ event.data = plugins'[name]]_vars

\* C26 happens: a subscriber was written plugin.registered twice for one
\* name, with two readings of the clock, and the registry holds the later
\* record.
C26_Witness ==
    \E d \in DOMAIN connections :
        \E i, j \in 1..Len(delivered[d]) :
            /\ i < j
            /\ delivered[d][i].topic = TopicRegistered
            /\ delivered[d][j].topic = TopicRegistered
            /\ delivered[d][i].data.name = delivered[d][j].data.name
            /\ delivered[d][i].data.registered_at
                  # delivered[d][j].data.registered_at
            /\ delivered[d][j].data.name \in DOMAIN plugins
            /\ plugins[delivered[d][j].data.name] = delivered[d][j].data

\* C27 as stated: a Register{P} enqueues nothing on the channel of a
\* connection bound to P.
C27_NoOwnRegisteredEvent ==
    [][\A c \in DOMAIN task, name \in Names, version \in Versions,
          order \in Orders(connections), ok \in BOOLEAN :
          Register(c, name, version, order, ok) =>
              \A d \in DOMAIN connections :
                  connections'[d].plugin_name = name =>
                      Len(channel'[d]) <= Len(channel[d])]_vars

\* C27 amended: a Register{P} dispatched while P's subscription list holds
\* no pattern matching plugin.registered (P has no list on a first
\* registration) enqueues nothing on the channel of a connection bound to P.
C27_NoOwnEventUnlessSubscribed ==
    [][\A c \in DOMAIN task, name \in Names, version \in Versions,
          order \in Orders(connections), ok \in BOOLEAN :
          (Register(c, name, version, order, ok)
              /\ ~(name \in DOMAIN subscribers
                     /\ matches(subscribers[name],
                                [topic |-> TopicRegistered]))) =>
              \A d \in DOMAIN connections :
                  connections'[d].plugin_name = name =>
                      Len(channel'[d]) <= Len(channel[d])]_vars

\* C27 happens: the only connection registered P twice and P's list is m
\* alone; nothing was enqueued for it.
C27_Witness ==
    \E c \in DOMAIN connections :
        /\ connection_counter = 1
        /\ Open(c)
        /\ clock = 2
        /\ bound_name(c) \in DOMAIN plugins
        /\ plugins[bound_name(c)].registered_at = Some(2)
        /\ bound_name(c) \in DOMAIN subscribers
        /\ subscribers[bound_name(c)] = << <<"m">> >>
        /\ delivered[c] = << >>
        /\ channel[c] = << >>

\* C30: a ListPlugins and a GetPlugin read no clock, enqueue no event and
\* leave the registry, the subscription table, the bindings and the channels
\* (the caller's when its response is written) as they are.
C30_ReadsArePure ==
    [][\A c \in DOMAIN task, ok \in BOOLEAN :
          (ListPlugins(c, ok) \/ \E name \in Names : GetPlugin(c, name, ok)) =>
              /\ plugins' = plugins
              /\ subscribers' = subscribers
              /\ connections' = connections
              /\ clock' = clock
              /\ \A d \in DOMAIN channel :
                    (d # c \/ ok) => channel'[d] = channel[d]]_vars

\* C30 happens: a read can be dispatched on an open connection while the
\* registry and the subscription table hold entries and an event is queued
\* (the state a read leaves is the state it found).
C30_Witness ==
    \E c, d \in DOMAIN connections :
        /\ Open(c)
        /\ channel[d] # << >>
        /\ list_plugins.data # {}
        /\ subscribers # << >>
        /\ \E name \in Names : get_plugin(name).status = "Success"

\* The tasks inside add_connection, handle_request or remove_connection.
Inside ==
    {t \in Tasks :
        pc[t] \in {"add_connection", "handle_request", "remove_connection"}}

\* C28: at most one task at a time is inside add_connection, handle_request
\* or remove_connection, and it is the task that holds the mutex.
C28_OneTaskInside ==
    /\ Cardinality(Inside) <= 1
    /\ \A t \in Inside : guard = <<t>>

\* C28 happens: a task is inside handle_request while another connection
\* task and the accept loop wait for the lock.
C28_Witness ==
    \E t, u \in Tasks \ {0} :
        /\ pc[t] = "handle_request"
        /\ pc[u] \in {"lock_request", "lock_cleanup"}
        /\ pc[0] = "lock"
        /\ guard = <<t>>

\* The Response lines among the lines the daemon has written.
ResponsesWritten == SelectSeq(written, LAMBDA l : "status" \in DOMAIN l)

\* The request lines the client has sent whole, and those of them the
\* daemon has read to their newline.
LinesSent == IF client = "send_request_newline" THEN sent - 1 ELSE sent

LinesRead ==
    LinesSent - Cardinality({i \in 1..Len(requests) : requests[i] = Newline})

\* C29: the Response lines the daemon has written are, in order, the
\* responses to the request lines it has read to their end: one for each.
C29_OneResponsePerLine ==
    /\ Len(ResponsesWritten) = LinesRead
    /\ \A i \in 1..Len(ResponsesWritten) :
          ResponsesWritten[i] = response_line(i)

\* The connections whose channel a step appended an event to.
Grew ==
    {c \in DOMAIN channel \cap DOMAIN channel' :
        Len(channel'[c]) > Len(channel[c])}

\* C32: a step that publishes an event appends at most one copy of it to any
\* channel, and of the connections bound to one subscriber name at most one
\* is given the event.
C32_OneCopyPerSubscriber ==
    [][/\ \A c \in Grew : Len(channel'[c]) = Len(channel[c]) + 1
       /\ \A c, d \in Grew :
             connections'[c].plugin_name = connections'[d].plugin_name
                 => c = d]_vars

\* C32 happens: two open connections had been bound to one subscribed name
\* when the last reading of the clock stamped a published event, and the
\* event reached one of them and not the other.
C32_Witness ==
    \E c, d \in DOMAIN connections :
        /\ c # d
        /\ Open(c) /\ Open(d)
        /\ bound_name(c) # None
        /\ bound_name(c) = bound_name(d)
        /\ bound_name(c) \in DOMAIN subscribers
        /\ channel[c] # << >>
        /\ channel[c][Len(channel[c])].topic \in PublishTopics
        /\ channel[c][Len(channel[c])].timestamp = Some(MaxClock)
        /\ channel[d] = << >>
        /\ delivered[d] = << >>

\* C33: a plugin registered and subscribed on a connection that stays open
\* stays in the registry and in the subscription table across every step
\* that is not a Deregister of its name.
C33_OwnerKeepsPlugin ==
    [][\A c \in DOMAIN connections, name \in Names :
          (/\ Open(c)
           /\ bound_name(c) = name
           /\ name \in answered[c]
           /\ name \in DOMAIN plugins
           /\ name \in DOMAIN subscribers
           /\ task'[c] = "running"
           /\ ~ \E d \in DOMAIN task, order \in Orders(connections),
                   ok \in BOOLEAN : Deregister(d, name, order, ok)) =>
              /\ name \in DOMAIN plugins'
              /\ name \in DOMAIN subscribers']_vars

\* A connection whose task has not returned.
Alive(c) == c \in DOMAIN connections /\ rx_alive(c)

\* C34: every key of the subscription table is the bound plugin name of a
\* connection whose task has not returned.
C34_SubscriptionHasConnection ==
    \A name \in DOMAIN subscribers :
        \E c \in DOMAIN connections : Alive(c) /\ bound_name(c) = name

\* C35: a Deregister{P} dispatched while P's list matches
\* plugin.deregistered and an open connection is bound to P appends the
\* plugin.deregistered event naming P to the channel of an open connection
\* bound to P.
C35_DeregisterReachesItself ==
    [][\A c \in DOMAIN task, name \in Names,
          order \in Orders(connections), ok \in BOOLEAN :
          (/\ Deregister(c, name, order, ok)
           /\ name \in DOMAIN subscribers
           /\ matches(subscribers[name], [topic |-> TopicDeregistered])
           /\ \E d \in BoundTo(name) : Open(d) /\ task'[d] = "running") =>
              \E d \in BoundTo(name) :
                  /\ Open(d)
                  /\ channel'[d]
                        = Append(channel[d],
                                 deregistered_event(name, clock'))]_vars

\* C36: the text the daemon has read of a request line whose newline has not
\* arrived yet is only ever extended by the next chunk, or dispatched whole
\* when the newline arrives; no other step of the connection's task (the
\* event branch in particular) changes it.
C36_PartialLineKept ==
    [][line # << >> =>
          \/ line' = line
          \/ /\ Len(line') = Len(line) + 1
             /\ SubSeq(line', 1, Len(line)) = line
          \/ /\ line' = << >>
             /\ written' = Append(written, response_line(line[1]))]_vars

\* The identities that have a key, and the scopes an identity's defined
\* roles give it.
Holders(api_key) ==
    {id \in DOMAIN identities : identities[id].api_key = api_key}

ScopesOf(id) ==
    UNION {{roles[identities[id].roles[i]].scopes[j] :
               j \in 1..Len(roles[identities[id].roles[i]].scopes)} :
           i \in {k \in 1..Len(identities[id].roles) :
                     identities[id].roles[k] \in DOMAIN roles}}

\* C31: a request is rejected by the middleware (401) iff no configured
\* identity has its key, and it passes the handler's scope test (200) iff an
\* identity that has its key is given "*" or the required scope itself by
\* its roles.
C31_AuthorisedIffScoped ==
    http_request.status # 0 =>
        /\ (http_request.status = 401) <=>
               (Holders(http_request.api_key) = {})
        /\ (http_request.status = 200) <=>
               \E id \in Holders(http_request.api_key) :
                   \/ "*" \in ScopesOf(id)
                   \/ http_request.required \in ScopesOf(id)

\* C37: while a received UDP request waits for the client lock and the
\* monitor task holds it in read_event, pandemic-udp or the daemon can take
\* a step without the daemon publishing an event: the request does not
\* depend on an event to be forwarded and answered.
C37_ProxyRequestNotStuck ==
    (proxy = "lock" /\ monitor = "read_event"
         /\ client_guard = <<"monitor">>) => ENABLED UdpProgress

\* C38: when a WebSocket handler sends a message after its Subscribe, the
\* message is "connected" only if the daemon answered the Subscribe with
\* Success and the subscription table then holds the handler's topics for
\* its connection, and it is an error message when the daemon answered
\* Error.
C38_ConnectedOnlyIfSubscribed ==
    [][\A c \in DOMAIN websockets \cap DOMAIN websockets' :
          Len(websockets'[c].sent) > Len(websockets[c].sent) =>
              LET message == websockets'[c].sent[Len(websockets'[c].sent)]
              IN /\ message.type = "connected" =>
                        /\ subscribe_response(c).status = "Success"
                        /\ \E name \in DOMAIN subscribers' :
                              /\ name = bound_name(c)
                              /\ subscribers'[name] = websockets[c].topics
                 /\ subscribe_response(c).status = "Error" =>
                        message.type = "error"]_vars

\* Whether check i of the log found the process healthy (an error of the
\* check counting as not healthy).
Healthy(i) == health_log[i].result = <<"Ok", TRUE>>

\* C39: a health check of the proxy sent a Publish of health.<name> exactly
\* when it was the first check or its outcome differs from the outcome of
\* the check before it, and the recorded outcome is that of the latest
\* check, whether or not its Publish went through.
C39_PublishOnChange ==
    /\ \A i \in 1..Len(health_log) :
          /\ (health_log[i].publish # << >>) <=>
                 (i = 1 \/ Healthy(i) # Healthy(i - 1))
          /\ health_log[i].publish # << >> =>
                 /\ health_log[i].publish[1].topic = HealthTopic
                 /\ health_log[i].publish[1].data.healthy = Healthy(i)
    /\ (health_log # << >>) =>
           last_health_status = Some(Healthy(Len(health_log)))
    /\ (health_log = << >>) => last_health_status = NoStatus

\* C39 happens: a first check published, a second one with the same outcome
\* published nothing, and a third one with another outcome published though
\* its request failed.
C39_Witness ==
    /\ Len(health_log) = 3
    /\ health_log[1].publish # << >>
    /\ Healthy(2) = Healthy(1)
    /\ health_log[2].publish = << >>
    /\ Healthy(3) # Healthy(2)
    /\ health_log[3].publish # << >>
    /\ ~health_log[3].publish[1].sent
    /\ last_health_status = Some(Healthy(3))

====
